---- MODULE Spec2Model ----
(***************************************************************************)
(* The cvent webhook handler: the record schemas SessionData/SpeakerData,  *)
(* the file-backed Database with its load, save, update and delete         *)
(* operations, the event                                                   *)
(* dispatcher handle_event and the POST /cvent-event request handler.      *)
(*                                                                         *)
(* JSON values are tagged records: the tag t is the shape of the value     *)
(* ("str" plain text s, "datetime-str" text in ISO date-time form with     *)
(* instant a and offset b, "date-str" text in ISO date form for day a,     *)
(* "num" the number a, "list" the list l of texts).  A JSON object is a    *)
(* function from key strings to JSON values.  A datetime is [inst, off]:   *)
(* the instant and the UTC offset it is written with; Python compares      *)
(* aware datetimes by instant.                                             *)
(***************************************************************************)
EXTENDS Integers, Sequences, FiniteSets, TLC

VARIABLES
    disk,       \* the data directory: sub-directories present and their files
    database,   \* the live Database instance
    op,         \* the operation that ran last (with the event kind it was given)
    result,     \* its outcome: "True", "False", "None" or the exception raised
    writes,     \* the paths written by the last operation, in order
    notified,   \* the messages handed to notify_about_circle_registration by the last operation
    response,   \* HTTP status of the last request (0: none yet)
    steps,      \* operations performed so far
    tasks,      \* the cvent_event coroutine of each connection and its local variables
    running     \* the coroutine the event loop is executing (0: none)

\* The variables of the event loop, and those of the operation that ran last.
loop == <<tasks, running>>
last == <<database, op, result, writes, notified, response, steps>>

vars == <<disk, database, op, result, writes, notified, response, steps, tasks, running>>

\* Bounds of the model.
MaxMessages == 2    \* longest event["message"] list
MaxInstant == 2     \* datetime instants 1..MaxInstant
MaxSteps == 4       \* operations in one run of Spec

EmptyMap == [k \in {} |-> k]

Put(f, k, v) == [x \in (DOMAIN f) \cup {k} |-> IF x = k THEN v ELSE f[x]]

(***************************************************************************)
(* JSON values                                                             *)
(***************************************************************************)
JSON(t, s, a, b, l) == [t |-> t, s |-> s, a |-> a, b |-> b, l |-> l]
Str(s) == JSON("str", s, 0, 0, <<>>)
DateTimeStr(inst, off) == JSON("datetime-str", "", inst, off, <<>>)
DateStr(d) == JSON("date-str", "", d, 0, <<>>)
Num(n) == JSON("num", "", n, 0, <<>>)
List(l) == JSON("list", "", 0, 0, l)

(***************************************************************************)
(* Record schemas (pydantic models), event.py 18-51                        *)
(***************************************************************************)
\* name.split("_")
split(name) ==
    CASE name = "session_description"      -> <<"session", "description">>
      [] name = "session_end_date_time"    -> <<"session", "end", "date", "time">>
      [] name = "session_name"             -> <<"session", "name">>
      [] name = "session_start_date_time"  -> <<"session", "start", "date", "time">>
      [] name = "session_stub"             -> <<"session", "stub">>
      [] name = "speaker_category"         -> <<"speaker", "category">>
      [] name = "speakers"                 -> <<"speakers">>
      [] name = "timezone_name"            -> <<"timezone", "name">>
      [] name = "updated_date"             -> <<"updated", "date">>
      [] name = "presenter_at"             -> <<"presenter", "at">>
      [] name = "speaker_biography"        -> <<"speaker", "biography">>
      [] name = "speaker_display_name"     -> <<"speaker", "display", "name">>
      [] name = "speaker_first_name"       -> <<"speaker", "first", "name">>
      [] name = "speaker_last_name"        -> <<"speaker", "last", "name">>
      [] name = "speaker_stub"             -> <<"speaker", "stub">>
      [] name = "speaker_title"            -> <<"speaker", "title">>

\* str.capitalize on the words of the field names
capitalize(w) ==
    CASE w = "description" -> "Description"
      [] w = "end"         -> "End"
      [] w = "date"        -> "Date"
      [] w = "time"        -> "Time"
      [] w = "name"        -> "Name"
      [] w = "start"       -> "Start"
      [] w = "stub"        -> "Stub"
      [] w = "category"    -> "Category"
      [] w = "at"          -> "At"
      [] w = "biography"   -> "Biography"
      [] w = "display"     -> "Display"
      [] w = "first"       -> "First"
      [] w = "last"        -> "Last"
      [] w = "title"       -> "Title"

RECURSIVE join(_)
join(ws) == IF ws = <<>> THEN "" ELSE ws[1] \o join(Tail(ws))

camel_case(name) ==
    LET parts == split(name)
        first == Head(parts)
        rest  == Tail(parts)
    IN  first \o join([i \in 1..Len(rest) |-> capitalize(rest[i])])

\* The declared type of each field.
SessionDataFields ==
    [session_description     |-> "str",
     session_end_date_time   |-> "datetime",
     session_name            |-> "str",
     session_start_date_time |-> "datetime",
     session_stub            |-> "str",
     speaker_category        |-> "list",
     speakers                |-> "list",
     timezone_name           |-> "str",
     updated_date            |-> "date"]

SpeakerDataFields ==
    [presenter_at         |-> "list",
     speaker_biography    |-> "str",
     speaker_display_name |-> "str",
     speaker_first_name   |-> "str",
     speaker_last_name    |-> "str",
     speaker_stub         |-> "str",
     speaker_title        |-> "str",
     updated_date         |-> "date"]

\* Config.alias_generator = camel_case: the alias of every field, fixed when
\* the class is created.
SessionDataAliases == [f \in DOMAIN SessionDataFields |-> camel_case(f)]
SpeakerDataAliases == [f \in DOMAIN SpeakerDataFields |-> camel_case(f)]

\* A model class: its fields and their aliases.
SessionDataModel == [fields |-> SessionDataFields, alias |-> SessionDataAliases]
SpeakerDataModel == [fields |-> SpeakerDataFields, alias |-> SpeakerDataAliases]

\* Fields with a default ([]) may be absent from a payload.
HasDefault(type) == type = "list"

\* Does JSON value j satisfy the declared type?
type_ok(type, j) ==
    CASE type = "str"      -> j.t = "str"
      [] type = "datetime" -> j.t \in {"datetime-str", "num"}
      [] type = "date"     -> j.t = "date-str"
      [] type = "list"     -> j.t = "list"

\* The coerced value of a valid JSON value.
coerce(type, j) ==
    CASE type = "str"      -> j.s
      [] type = "datetime" -> IF j.t = "num" THEN [inst |-> j.a, off |-> 0]
                                             ELSE [inst |-> j.a, off |-> j.b]
      [] type = "date"     -> j.a
      [] type = "list"     -> j.l

\* Model(**message) succeeds: every field is found under its alias, or has a default.
validates(model, message) ==
    \A f \in DOMAIN model.fields :
        IF model.alias[f] \in DOMAIN message
        THEN type_ok(model.fields[f], message[model.alias[f]])
        ELSE HasDefault(model.fields[f])

\* The record built from a valid message; input keys that are no alias are ignored.
parse_obj(model, message) ==
    [f \in DOMAIN model.fields |->
        IF model.alias[f] \in DOMAIN message
        THEN coerce(model.fields[f], message[model.alias[f]])
        ELSE <<>>]

SessionData(message) == parse_obj(SessionDataModel, message)
SpeakerData(message) == parse_obj(SpeakerDataModel, message)

\* JSON encoding of a field value: text as it is, datetime.isoformat(),
\* date.isoformat(), a list of texts.
encode(type, x) ==
    CASE type = "str"      -> Str(x)
      [] type = "datetime" -> DateTimeStr(x.inst, x.off)
      [] type = "date"     -> DateStr(x)
      [] type = "list"     -> List(x)

\* data.json() without by_alias: the keys are the field names.
json_by_name(model, data) ==
    [f \in DOMAIN model.fields |-> encode(model.fields[f], data[f])]

\* data.json(by_alias=True): one key per field, named by the field's alias.
json(model, data) ==
    [key \in {model.alias[f] : f \in DOMAIN model.fields} |->
        LET f == CHOOSE g \in DOMAIN model.fields : model.alias[g] = key
        IN  encode(model.fields[f], data[f])]

\* BaseModel.__eq__: field by field, datetimes by instant.
DataEq(fields, d1, d2) ==
    \A f \in DOMAIN fields :
        IF fields[f] = "datetime" THEN d1[f].inst = d2[f].inst ELSE d1[f] = d2[f]

(***************************************************************************)
(* Database, event.py 121-238                                              *)
(***************************************************************************)
\* The wrapper built with the default updated=True whatever the caller passes.
Session_default_updated(data, updated) == [data |-> data, updated |-> TRUE, deleted |-> FALSE]

\* Session(data, updated=True, deleted=False)
Session(data, updated) == [data |-> data, updated |-> updated, deleted |-> FALSE]

\* The speaker wrapper built with the default updated=True whatever the caller passes.
Speaker_default_updated(data, categories, updated) ==
    [data |-> data, categories |-> categories, updated |-> TRUE, deleted |-> FALSE]

\* Speaker(data, categories, updated=True, deleted=False)
Speaker(data, categories, updated) ==
    [data |-> data, categories |-> categories, updated |-> updated, deleted |-> FALSE]

\* Session.filename / Speaker.filename
filename(stub) == stub \o ".json"

\* cls({}, {}, {})
EmptyDatabase ==
    [sessions |-> EmptyMap, speakers |-> EmptyMap, speaker_categories |-> EmptyMap]

\* The chain comparing the label without regard to case.
classify_casefold(category) ==
    IF category \in {"Organist", "Performer", "organist", "performer", "PERFORMER"}
    THEN "PERFORMER"
    ELSE IF category \in {"New Music Composer", "new music composer"} THEN "COMPOSER"
    ELSE IF category \in {"Speaker", "Panelist", "Presenter", "Workshop Presenter", "Moderator",
                          "speaker", "presenter", "moderator", "Workshop presenter"}
         THEN "PRESENTER"
    ELSE "unknown"

\* The if/elif chain over the role label in load.
classify(category) ==
    IF category \in {"Organist", "Performer"} THEN "PERFORMER"
    ELSE IF category \in {"New Music Composer"} THEN "COMPOSER"
    ELSE IF category \in {"Speaker", "Panelist", "Presenter", "Workshop Presenter", "Moderator"}
         THEN "PRESENTER"
    ELSE "unknown"

\* dict.get(key, [])
GetList(d, key) == IF key \in DOMAIN d THEN d[key] ELSE <<>>

Min(a, b) == IF a < b THEN a ELSE b

\* The index kept as a set: a category is appended only if not yet listed.
RECURSIVE zip_categories_dedup(_, _, _, _)
zip_categories_dedup(cats, speakers, labels, i) ==
    IF i > Min(Len(speakers), Len(labels)) THEN cats
    ELSE LET c == classify(labels[i])
             held == GetList(cats, speakers[i])
             next == IF c = "unknown" \/ \E k \in DOMAIN held : held[k] = c THEN cats
                     ELSE Put(cats, speakers[i], Append(held, c))
         IN  zip_categories_dedup(next, speakers, labels, i + 1)

\* for speaker_stub, category in zip(speakers, speaker_category): ... setdefault(...).append(...)
RECURSIVE zip_categories(_, _, _, _)
zip_categories(cats, speakers, labels, i) ==
    IF i > Min(Len(speakers), Len(labels)) THEN cats
    ELSE LET c == classify(labels[i])
             next == IF c = "unknown" THEN cats
                     ELSE Put(cats, speakers[i], Append(GetList(cats, speakers[i]), c))
         IN  zip_categories(next, speakers, labels, i + 1)

\* The loop over (data_dir / "sessions").iterdir(); order is the order of the scan.
RECURSIVE load_sessions(_, _, _)
load_sessions(self, files, order) ==
    IF order = <<>> THEN self
    ELSE LET session == Session(SessionData(files[Head(order)]), FALSE)
             stub == session.data.session_stub
             next == [self EXCEPT
                        !.sessions = Put(self.sessions, stub, session),
                        !.speaker_categories =
                            zip_categories(self.speaker_categories, session.data.speakers,
                                           session.data.speaker_category, 1)]
         IN  load_sessions(next, files, Tail(order))

\* The loop over (data_dir / "speakers").iterdir()
RECURSIVE load_speakers(_, _, _)
load_speakers(self, files, order) ==
    IF order = <<>> THEN self
    ELSE LET data == SpeakerData(files[Head(order)])
             categories == GetList(self.speaker_categories, data.speaker_stub)
             speaker == Speaker(data, categories, FALSE)
             next == [self EXCEPT !.speakers = Put(self.speakers, data.speaker_stub, speaker)]
         IN  load_speakers(next, files, Tail(order))

\* The orders in which iterdir() may yield the files of a directory.
Orders(files) ==
    {o \in [1..Cardinality(DOMAIN files) -> DOMAIN files] :
        \A i, j \in DOMAIN o : i # j => o[i] # o[j]}

\* Database.load; a sub-directory that is missing is skipped (FileNotFoundError).
load(d, sessionOrder, speakerOrder) ==
    LET s1 == IF "sessions" \in d.dirs
              THEN load_sessions(EmptyDatabase, d.sessions, sessionOrder)
              ELSE EmptyDatabase
    IN  IF "speakers" \in d.dirs THEN load_speakers(s1, d.speakers, speakerOrder) ELSE s1

\* The stubs of a mapping in the order .values() visits them.
RECURSIVE values_order(_)
values_order(stubs) ==
    IF stubs = {} THEN <<>>
    ELSE LET s == CHOOSE x \in stubs : TRUE IN <<s>> \o values_order(stubs \ {s})

\* save writing every wrapper, updated or not.
AllStubs(m) == DOMAIN m

\* if session.updated / if speaker.updated: the wrappers save writes.
UpdatedStubs(m) == {s \in DOMAIN m : m[s].updated}

\* The write loop of save over one collection.
RECURSIVE write_all(_, _, _, _)
write_all(files, m, model, order) ==
    IF order = <<>> THEN files
    ELSE write_all(Put(files, filename(Head(order)), json(model, m[Head(order)].data)),
                   m, model, Tail(order))

\* Database.save: the directory afterwards and the paths written.
save(self, d) ==
    LET ss == values_order(UpdatedStubs(self.sessions))
        ps == values_order(UpdatedStubs(self.speakers))
    IN  [disk   |-> [dirs     |-> d.dirs \cup {"sessions", "speakers"},
                     sessions |-> write_all(d.sessions, self.sessions, SessionDataModel, ss),
                     speakers |-> write_all(d.speakers, self.speakers, SpeakerDataModel, ps)],
         writes |-> [i \in 1..Len(ss) |-> "sessions/" \o filename(ss[i])]
                    \o [i \in 1..Len(ps) |-> "speakers/" \o filename(ps[i])]]

\* The file-system calls of save, in order: a mkdir (stub "") or a write_text.
\* The directory "" is data_dir itself, which exists.
save_steps(self) ==
    LET ss == values_order(UpdatedStubs(self.sessions))
        ps == values_order(UpdatedStubs(self.speakers))
    IN  <<[dir |-> "", stub |-> ""], [dir |-> "sessions", stub |-> ""]>>
        \o [i \in 1..Len(ss) |-> [dir |-> "sessions", stub |-> ss[i]]]
        \o <<[dir |-> "speakers", stub |-> ""]>>
        \o [i \in 1..Len(ps) |-> [dir |-> "speakers", stub |-> ps[i]]]

\* One file-system call of save.
save_step(self, d, step) ==
    IF step.stub = ""
    THEN [d EXCEPT !.dirs = IF step.dir = "" THEN @ ELSE @ \cup {step.dir}]
    ELSE IF step.dir = "sessions"
    THEN [d EXCEPT !.sessions = Put(@, filename(step.stub),
                                    json(SessionDataModel, self.sessions[step.stub].data))]
    ELSE [d EXCEPT !.speakers = Put(@, filename(step.stub),
                                    json(SpeakerDataModel, self.speakers[step.stub].data))]

RECURSIVE save_prefix(_, _, _, _)
save_prefix(self, d, steps_, n) ==
    IF n = 0 THEN d
    ELSE save_step(self, save_prefix(self, d, steps_, n - 1), steps_[n])

\* Database.save when its file-system call number fault raises OSError: the
\* calls before it took effect, the failing one and those after it did not.
save_interrupted(self, d, fault) ==
    LET steps_ == save_steps(self)
        done   == SelectSeq(SubSeq(steps_, 1, fault - 1), LAMBDA st : st.stub # "")
    IN  [disk   |-> save_prefix(self, d, steps_, fault - 1),
         writes |-> [i \in 1..Len(done) |-> done[i].dir \o "/" \o filename(done[i].stub)]]

\* delete_session removing the wrapper from the mapping.
delete_session_removes(self, stub) ==
    IF stub \in DOMAIN self.sessions
    THEN [database |-> [self EXCEPT !.sessions =
                            [x \in (DOMAIN self.sessions) \ {stub} |-> self.sessions[x]]],
          result |-> "True"]
    ELSE [database |-> self, result |-> "False"]

\* delete_session marking the wrapper updated as well, so that save writes it.
delete_session_marks_updated(self, stub) ==
    IF stub \in DOMAIN self.sessions
    THEN [database |-> [self EXCEPT !.sessions[stub].deleted = TRUE,
                                    !.sessions[stub].updated = TRUE],
          result |-> "True"]
    ELSE [database |-> self, result |-> "False"]

\* Database.delete_session
delete_session(self, stub) ==
    IF stub \in DOMAIN self.sessions
    THEN [database |-> [self EXCEPT !.sessions[stub].deleted = TRUE], result |-> "True"]
    ELSE [database |-> self, result |-> "False"]

\* delete_speaker reporting an absent stub as found.
delete_speaker_always_found(self, stub) ==
    IF stub \in DOMAIN self.speakers
    THEN [database |-> [self EXCEPT !.speakers[stub].deleted = TRUE], result |-> "True"]
    ELSE [database |-> self, result |-> "True"]

\* Database.delete_speaker
delete_speaker(self, stub) ==
    IF stub \in DOMAIN self.speakers
    THEN [database |-> [self EXCEPT !.speakers[stub].deleted = TRUE], result |-> "True"]
    ELSE [database |-> self, result |-> "False"]

\* update_session marking the wrapper updated even when the record is equal.
update_session_always_dirty(self, data) ==
    IF data.session_stub \in DOMAIN self.sessions
    THEN IF DataEq(SessionDataFields, self.sessions[data.session_stub].data, data)
         THEN [database |-> [self EXCEPT !.sessions[data.session_stub].updated = TRUE],
               result |-> "False"]
         ELSE [database |-> [self EXCEPT !.sessions[data.session_stub].data = data,
                                         !.sessions[data.session_stub].updated = TRUE],
               result |-> "True"]
    ELSE [database |-> [self EXCEPT !.sessions =
                            Put(self.sessions, data.session_stub, Session(data, TRUE))],
          result |-> "True"]

\* update_session replacing the record without setting updated.
update_session_not_marked(self, data) ==
    IF data.session_stub \in DOMAIN self.sessions
    THEN IF DataEq(SessionDataFields, self.sessions[data.session_stub].data, data)
         THEN [database |-> self, result |-> "False"]
         ELSE [database |-> [self EXCEPT !.sessions[data.session_stub].data = data],
               result |-> "True"]
    ELSE [database |-> [self EXCEPT !.sessions =
                            Put(self.sessions, data.session_stub, Session(data, TRUE))],
          result |-> "True"]

\* update_session adding the pairs of a new or changed record to the index.
update_session_reindexes(self, data) ==
    LET cats == zip_categories(self.speaker_categories, data.speakers,
                               data.speaker_category, 1)
    IN  IF data.session_stub \in DOMAIN self.sessions
        THEN IF DataEq(SessionDataFields, self.sessions[data.session_stub].data, data)
             THEN [database |-> self, result |-> "False"]
             ELSE [database |-> [self EXCEPT !.sessions[data.session_stub].data = data,
                                             !.sessions[data.session_stub].updated = TRUE,
                                             !.speaker_categories = cats],
                   result |-> "True"]
        ELSE [database |-> [self EXCEPT !.sessions =
                                Put(self.sessions, data.session_stub, Session(data, TRUE)),
                                        !.speaker_categories = cats],
              result |-> "True"]

\* update_session reviving a deleted wrapper: an upsert clears the tombstone.
update_session_undeletes(self, data) ==
    IF data.session_stub \in DOMAIN self.sessions
    THEN IF DataEq(SessionDataFields, self.sessions[data.session_stub].data, data)
         THEN IF self.sessions[data.session_stub].deleted
              THEN [database |-> [self EXCEPT !.sessions[data.session_stub].deleted = FALSE],
                    result |-> "True"]
              ELSE [database |-> self, result |-> "False"]
         ELSE [database |-> [self EXCEPT !.sessions[data.session_stub].data = data,
                                         !.sessions[data.session_stub].updated = TRUE,
                                         !.sessions[data.session_stub].deleted = FALSE],
               result |-> "True"]
    ELSE [database |-> [self EXCEPT !.sessions =
                            Put(self.sessions, data.session_stub, Session(data, TRUE))],
          result |-> "True"]

\* Database.update_session
update_session(self, data) ==
    IF data.session_stub \in DOMAIN self.sessions
    THEN IF DataEq(SessionDataFields, self.sessions[data.session_stub].data, data)
         THEN [database |-> self, result |-> "False"]
         ELSE [database |-> [self EXCEPT !.sessions[data.session_stub].data = data,
                                         !.sessions[data.session_stub].updated = TRUE],
               result |-> "True"]
    ELSE [database |-> [self EXCEPT !.sessions =
                            Put(self.sessions, data.session_stub, Session(data, TRUE))],
          result |-> "True"]

\* update_speaker building a new wrapper with no categories.
update_speaker_no_categories(self, data) ==
    IF data.speaker_stub \in DOMAIN self.speakers
    THEN IF DataEq(SpeakerDataFields, self.speakers[data.speaker_stub].data, data)
         THEN [database |-> self, result |-> "False"]
         ELSE [database |-> [self EXCEPT !.speakers[data.speaker_stub].data = data,
                                         !.speakers[data.speaker_stub].updated = TRUE],
               result |-> "True"]
    ELSE [database |-> [self EXCEPT !.speakers =
                            Put(self.speakers, data.speaker_stub, Speaker(data, <<>>, TRUE))],
          result |-> "True"]

\* Database.update_speaker
update_speaker(self, data) ==
    IF data.speaker_stub \in DOMAIN self.speakers
    THEN IF DataEq(SpeakerDataFields, self.speakers[data.speaker_stub].data, data)
         THEN [database |-> self, result |-> "False"]
         ELSE [database |-> [self EXCEPT !.speakers[data.speaker_stub].data = data,
                                         !.speakers[data.speaker_stub].updated = TRUE],
               result |-> "True"]
    ELSE LET categories == GetList(self.speaker_categories, data.speaker_stub)
         IN  [database |-> [self EXCEPT !.speakers =
                                Put(self.speakers, data.speaker_stub,
                                    Speaker(data, categories, TRUE))],
              result |-> "True"]

(***************************************************************************)
(* handle_event, event.py 241-312                                          *)
(***************************************************************************)
\* The admission item literal of line 269 (its dash is written in ASCII here).
SelectCircle == "Convention Registration - SF Select Circle"

Raise(db, exc, sent) == [database |-> db, result |-> exc, notified |-> sent]

Return(r) == [database |-> r.database, result |-> r.result, notified |-> <<>>]

\* notify_about_circle_registration: the message handed to the mail API.
notify_about_circle_registration(message) == <<message>>

\* SessionCreated ignoring a stub the store already holds.
session_created_only_new(message, db) ==
    IF validates(SessionDataModel, message)
    THEN IF SessionData(message).session_stub \in DOMAIN db.sessions
         THEN Raise(db, "False", <<>>)
         ELSE Return(update_session(db, SessionData(message)))
    ELSE Raise(db, "ValidationError", <<>>)

\* elif event_type == "SessionCreated"
session_created(message, db) ==
    IF validates(SessionDataModel, message)
    THEN Return(update_session(db, SessionData(message)))
    ELSE Raise(db, "ValidationError", <<>>)

\* SessionUpdated marking the wrapper named by the payload before validating it.
session_updated_marks_first(message, db) ==
    IF validates(SessionDataModel, message)
    THEN Return(update_session(db, SessionData(message)))
    ELSE IF /\ "sessionStub" \in DOMAIN message
            /\ message["sessionStub"].s \in DOMAIN db.sessions
         THEN Raise([db EXCEPT !.sessions[message["sessionStub"].s].updated = TRUE],
                    "ValidationError", <<>>)
         ELSE Raise(db, "ValidationError", <<>>)

\* elif event_type == "SessionUpdated"
session_updated(message, db) ==
    IF validates(SessionDataModel, message)
    THEN Return(update_session(db, SessionData(message)))
    ELSE Raise(db, "ValidationError", <<>>)

\* elif event_type == "SessionDeleted"
session_deleted(message, db) ==
    IF "sessionStub" \in DOMAIN message
    THEN Return(delete_session(db, message["sessionStub"].s))
    ELSE Raise(db, "KeyError: 'sessionStub'", <<>>)

\* elif event_type == "SpeakerCreated"
speaker_created(message, db) ==
    IF validates(SpeakerDataModel, message)
    THEN Return(update_speaker(db, SpeakerData(message)))
    ELSE Raise(db, "ValidationError", <<>>)

\* elif event_type == "SpeakerUpdated"
speaker_updated(message, db) ==
    IF validates(SpeakerDataModel, message)
    THEN Return(update_speaker(db, SpeakerData(message)))
    ELSE Raise(db, "ValidationError", <<>>)

\* elif event_type == "SpeakerDeleted"
speaker_deleted(message, db) ==
    IF "speakerStub" \in DOMAIN message
    THEN Return(delete_speaker(db, message["speakerStub"].s))
    ELSE Raise(db, "KeyError: 'speakerStub'", <<>>)

\* The invitee branch notifying whatever the admission item is.
invitee_or_guest_accepted_always_notifies(message, db) ==
    IF "admissionItem" \notin DOMAIN message
    THEN Raise(db, "KeyError: 'admissionItem'", <<>>)
    ELSE Raise(db, "UnboundLocalError", notify_about_circle_registration(message))

\* elif event_type == "InviteeOrGuestAccepted": neither branch assigns changed,
\* so the "return changed" that follows raises UnboundLocalError.
invitee_or_guest_accepted(message, db) ==
    IF "admissionItem" \notin DOMAIN message
    THEN Raise(db, "KeyError: 'admissionItem'", <<>>)
    ELSE IF message["admissionItem"] = Str(SelectCircle)
         THEN Raise(db, "UnboundLocalError", notify_about_circle_registration(message))
         ELSE Raise(db, "UnboundLocalError", <<>>)

\* An unrecognized event kind ignored instead of rejected.
unrecognized_ignored(event_type, db) == Raise(db, "False", <<>>)

\* else: raise ValueError(f"Unrecognized event type {event_type!r}")
unrecognized(event_type, db) ==
    Raise(db, "ValueError: Unrecognized event type '" \o event_type \o "'", <<>>)

\* handle_event taking the last entry of the message list instead of the first.
handle_event_last_message(event, db) ==
    LET event_type == event.eventType
        message == event.message[Len(event.message)]
    IN  CASE event_type = "SessionCreated"         -> session_created(message, db)
          [] event_type = "SessionUpdated"         -> session_updated(message, db)
          [] event_type = "SessionDeleted"         -> session_deleted(message, db)
          [] event_type = "SpeakerCreated"         -> speaker_created(message, db)
          [] event_type = "SpeakerUpdated"         -> speaker_updated(message, db)
          [] event_type = "SpeakerDeleted"         -> speaker_deleted(message, db)
          [] event_type = "InviteeOrGuestAccepted" -> invitee_or_guest_accepted(message, db)
          [] OTHER                                 -> unrecognized(event_type, db)

\* handle_event: message, *others = event["message"]; others are only logged.
handle_event(event, db) ==
    LET event_type == event.eventType
        message == Head(event.message)
    IN  CASE event_type = "SessionCreated"         -> session_created(message, db)
          [] event_type = "SessionUpdated"         -> session_updated(message, db)
          [] event_type = "SessionDeleted"         -> session_deleted(message, db)
          [] event_type = "SpeakerCreated"         -> speaker_created(message, db)
          [] event_type = "SpeakerUpdated"         -> speaker_updated(message, db)
          [] event_type = "SpeakerDeleted"         -> speaker_deleted(message, db)
          [] event_type = "InviteeOrGuestAccepted" -> invitee_or_guest_accepted(message, db)
          [] OTHER                                 -> unrecognized(event_type, db)

(***************************************************************************)
(* The request handlers, __main__.py 24-63                                 *)
(***************************************************************************)
auth_token == "token"

HTTP_200_OK == 200
HTTP_400_BAD_REQUEST == 400
HTTP_401_UNAUTHORIZED == 401

\* GET /cvent-event
auth(authorization) ==
    IF authorization # auth_token THEN HTTP_401_UNAUTHORIZED ELSE HTTP_200_OK

\* POST /cvent-event.  The body has no await: it runs to completion.
cvent_event(d, db0, event, authorization, sessionOrder, speakerOrder) ==
    IF authorization # auth_token
    THEN [disk |-> d, database |-> db0, result |-> "HTTPException", writes |-> <<>>,
          notified |-> <<>>, response |-> HTTP_401_UNAUTHORIZED]
    ELSE LET db == load(d, sessionOrder, speakerOrder)
             h  == handle_event(event, db)
         IN  IF h.result \notin {"True", "False"}
             THEN [disk |-> d, database |-> h.database, result |-> h.result,
                   writes |-> <<>>, notified |-> h.notified,
                   response |-> HTTP_400_BAD_REQUEST]
             ELSE IF h.result = "False"
             THEN [disk |-> d, database |-> h.database, result |-> h.result,
                   writes |-> <<>>, notified |-> h.notified, response |-> HTTP_200_OK]
             ELSE LET sv == save(h.database, d)
                  IN  [disk |-> sv.disk, database |-> h.database, result |-> h.result,
                       writes |-> sv.writes, notified |-> h.notified,
                       response |-> HTTP_200_OK]

(***************************************************************************)
(* POST /cvent-event statement by statement.  A task is the coroutine of   *)
(* one request: pc is the statement it is at, event and authorization its  *)
(* arguments, database and result (changed) its local variables, seen the  *)
(* data directory as its load read it, calls the Database and dispatcher   *)
(* calls it has made, writes the paths its save wrote.                     *)
(***************************************************************************)
\* if authorization != auth_token: raise HTTPException(401)
cvent_event_auth(task) ==
    IF task.authorization # auth_token
    THEN [task EXCEPT !.pc = "done", !.result = "HTTPException",
                      !.response = HTTP_401_UNAUTHORIZED]
    ELSE [task EXCEPT !.pc = "load"]

\* database = Database.load(data_dir)
cvent_event_load(task, d, sessionOrder, speakerOrder) ==
    [task EXCEPT !.pc = "handle", !.database = load(d, sessionOrder, speakerOrder),
                 !.seen = d, !.calls = Append(@, "load")]

\* The handler going on to save whatever handle_event returned.
cvent_event_handle_always_saves(task) ==
    LET h == handle_event(task.event, task.database)
        t == [task EXCEPT !.database = h.database, !.result = h.result,
                          !.notified = h.notified, !.calls = Append(@, "handle_event")]
    IN  IF h.result \notin {"True", "False"}
        THEN [t EXCEPT !.pc = "done", !.response = HTTP_400_BAD_REQUEST]
        ELSE [t EXCEPT !.pc = "save"]

\* try: changed = handle_event(...) except Exception: raise HTTPException(400)
\* if not changed: return
cvent_event_handle(task) ==
    LET h == handle_event(task.event, task.database)
        t == [task EXCEPT !.database = h.database, !.result = h.result,
                          !.notified = h.notified, !.calls = Append(@, "handle_event")]
    IN  IF h.result \notin {"True", "False"}
        THEN [t EXCEPT !.pc = "done", !.response = HTTP_400_BAD_REQUEST]
        ELSE IF h.result = "False"
        THEN [t EXCEPT !.pc = "done", !.response = HTTP_200_OK]
        ELSE [t EXCEPT !.pc = "save"]

\* The save error answered like a dispatcher error.
save_error_as_bad_request == HTTP_400_BAD_REQUEST

\* except Exception: logger.error("Failed to save database"); return
save_error_response == HTTP_200_OK

\* try: database.save(data_dir), its file-system call number fault raising
\* (0: none does).  The task afterwards and the data directory.
cvent_event_save(task, d, fault) ==
    LET sv == IF fault = 0 THEN save(task.database, d)
              ELSE save_interrupted(task.database, d, fault)
    IN  [disk |-> sv.disk,
         task |-> [task EXCEPT !.pc = "done", !.writes = sv.writes,
                               !.calls = Append(@, "save"),
                               !.save_error = (fault # 0),
                               !.response = IF fault # 0 THEN save_error_response
                                            ELSE HTTP_200_OK]]

\* The handler awaiting load and save (run in a thread pool).
await_points_threadpool == {"handle", "save"}

\* The statements cvent_event awaits before: there is no await in its body.
await_points == {}

(***************************************************************************)
(* Inputs                                                                  *)
(***************************************************************************)
\* A session payload as the platform sends it (external field names).
SessionMessage(stub, name, start, speakers, labels) ==
    [k \in {"sessionDescription", "sessionEndDateTime", "sessionName",
            "sessionStartDateTime", "sessionStub", "speakerCategory", "speakers",
            "timezoneName", "updatedDate"} |->
        CASE k = "sessionDescription"   -> Str("An evening recital")
          [] k = "sessionEndDateTime"   -> DateTimeStr(MaxInstant + 1, 0)
          [] k = "sessionName"          -> Str(name)
          [] k = "sessionStartDateTime" -> start
          [] k = "sessionStub"          -> Str(stub)
          [] k = "speakerCategory"      -> List(labels)
          [] k = "speakers"             -> List(speakers)
          [] k = "timezoneName"         -> Str("America/Los_Angeles")
          [] k = "updatedDate"          -> DateStr(1)]

SpeakerMessage(stub, display, presenter_at) ==
    [k \in {"presenterAt", "speakerBiography", "speakerDisplayName", "speakerFirstName",
            "speakerLastName", "speakerStub", "speakerTitle", "updatedDate"} |->
        CASE k = "presenterAt"        -> List(presenter_at)
          [] k = "speakerBiography"   -> Str("Organist and teacher")
          [] k = "speakerDisplayName" -> Str(display)
          [] k = "speakerFirstName"   -> Str("Ann")
          [] k = "speakerLastName"    -> Str("Lee")
          [] k = "speakerStub"        -> Str(stub)
          [] k = "speakerTitle"       -> Str("Dr.")
          [] k = "updatedDate"        -> DateStr(1)]

Without(message, keys) == [k \in (DOMAIN message) \ keys |-> message[k]]

\* The same object under the internal (snake_case) field names.
Unaliased(model, message) ==
    [f \in {x \in DOMAIN model.fields : model.alias[x] \in DOMAIN message} |->
        message[model.alias[f]]]

\* Session "s1" at an early start (one speaker, a performer label) or a later
\* one (two speakers but a single presenter label).
S1(start) ==
    IF start.t = "datetime-str" /\ start.a > 1
    THEN SessionMessage("s1", "Panel", start, <<"p1", "p2">>, <<"Moderator">>)
    ELSE SessionMessage("s1", "Recital", start, <<"p1">>, <<"Organist">>)

Starts ==
    {DateTimeStr(i, 0) : i \in 1..MaxInstant} \cup {DateTimeStr(1, 1), Num(1)}

S2 == SessionMessage("s2", "Hymn festival", DateTimeStr(1, 0),
                     <<"p2", "p1", "p1", "p2">>,
                     <<"organist", "Performer", "Organist", "New Music Composer">>)

ValidSessionMessages == {S1(st) : st \in Starts} \cup {S2}

InvalidSessionMessages ==
    {Without(S2, {"sessionName"}),
     [S2 EXCEPT !["sessionStartDateTime"] = Str("soon")],
     Unaliased(SessionDataModel, S2)}

P1a == SpeakerMessage("p1", "Ann Lee", <<"s1", "s2">>)
P1b == Without(SpeakerMessage("p1", "Dr. Ann Lee", <<>>), {"presenterAt"})

ValidSpeakerMessages == {P1a, P1b}

InvalidSpeakerMessages == {Without(P1a, {"speakerBiography"})}

SessionDatas == {SessionData(m) : m \in ValidSessionMessages}
SpeakerDatas == {SpeakerData(m) : m \in ValidSpeakerMessages}

SessionStubs == {"s1", "s2", "s3"}
SpeakerStubs == {"p1", "p3"}

SessionStubMessage(stub) == [k \in {"sessionStub"} |-> Str(stub)]
SpeakerStubMessage(stub) == [k \in {"speakerStub"} |-> Str(stub)]

InviteeMessage(item) ==
    [k \in {"admissionItem", "fullName"} |->
        IF k = "admissionItem" THEN Str(item) ELSE Str("Ann Lee")]

InviteeMessages ==
    {InviteeMessage(SelectCircle), InviteeMessage("Convention Registration")}

\* First messages by event kind.
FirstMessages(event_type) ==
    IF event_type \in {"SessionCreated", "SessionUpdated"}
    THEN ValidSessionMessages \cup InvalidSessionMessages \cup {P1a}
    ELSE IF event_type = "SessionDeleted"
    THEN {SessionStubMessage(s) : s \in SessionStubs} \cup {SpeakerStubMessage("p1"), S2}
    ELSE IF event_type \in {"SpeakerCreated", "SpeakerUpdated"}
    THEN ValidSpeakerMessages \cup InvalidSpeakerMessages \cup {S2}
    ELSE IF event_type = "SpeakerDeleted"
    THEN {SpeakerStubMessage(s) : s \in SpeakerStubs} \cup {SessionStubMessage("s1")}
    ELSE IF event_type = "InviteeOrGuestAccepted"
    THEN InviteeMessages \cup {SessionStubMessage("s1")}
    ELSE {S2, SessionStubMessage("s1"), InviteeMessage(SelectCircle)}

KnownEventTypes ==
    {"SessionCreated", "SessionUpdated", "SessionDeleted", "SpeakerCreated",
     "SpeakerUpdated", "SpeakerDeleted", "InviteeOrGuestAccepted"}

EventTypes == KnownEventTypes \cup {"SessionArchived", "sessionCreated"}

\* The entries after the first: copies of another valid payload.
Others(n) == [i \in 1..n |-> S1(DateTimeStr(MaxInstant, 0))]

\* Events of one kind: a first message alone, or followed by the most entries.
EventsOf(ty) ==
    {[eventType |-> ty, message |-> <<m>> \o Others(n)] :
        m \in FirstMessages(ty), n \in {0, MaxMessages - 1}}

Events == UNION {EventsOf(ty) : ty \in EventTypes}

Authorizations == {auth_token, "wrong", "(no header)"}

(***************************************************************************)
(* State machine                                                           *)
(***************************************************************************)
EmptyDisk == [dirs |-> {}, sessions |-> EmptyMap, speakers |-> EmptyMap]

\* The connections the server holds open at one time.
Requests == {1, 2}

NoEvent == [eventType |-> "", message |-> <<>>]

\* A connection with no request on it.
IdleTask ==
    [pc |-> "idle", event |-> NoEvent, authorization |-> "", seen |-> EmptyDisk,
     database |-> EmptyDatabase, result |-> "None", calls |-> <<>>, writes |-> <<>>,
     notified |-> <<>>, save_error |-> FALSE, response |-> 0]

Init ==
    /\ disk = EmptyDisk
    /\ database = EmptyDatabase
    /\ op = "init"
    /\ result = "None"
    /\ writes = <<>>
    /\ notified = <<>>
    /\ response = 0
    /\ steps = 0
    /\ tasks = [r \in Requests |-> IdleTask]
    /\ running = 0

Step ==
    /\ steps < MaxSteps
    /\ steps' = steps + 1

Load ==
    /\ Step
    /\ \E so \in Orders(disk.sessions), po \in Orders(disk.speakers) :
        /\ database' = load(disk, so, po)
        /\ op' = "load"
        /\ result' = "None"
        /\ writes' = <<>>
        /\ notified' = <<>>
        /\ UNCHANGED <<disk, response, loop>>

Save ==
    /\ Step
    /\ \E sv \in {save(database, disk)} :
        /\ disk' = sv.disk
        /\ writes' = sv.writes
    /\ op' = "save"
    /\ result' = "None"
    /\ notified' = <<>>
    /\ UNCHANGED <<database, response, loop>>

Apply(name, r) ==
    /\ Step
    /\ database' = r.database
    /\ result' = r.result
    /\ op' = name
    /\ writes' = <<>>
    /\ notified' = <<>>
    /\ UNCHANGED <<disk, response, loop>>

UpdateSession == \E data \in SessionDatas : Apply("update_session", update_session(database, data))

UpdateSpeaker == \E data \in SpeakerDatas : Apply("update_speaker", update_speaker(database, data))

DeleteSession == \E stub \in SessionStubs : Apply("delete_session", delete_session(database, stub))

DeleteSpeaker == \E stub \in SpeakerStubs : Apply("delete_speaker", delete_speaker(database, stub))

HandleEvent ==
    \E event \in Events :
        \E h \in {handle_event(event, database)} :
            /\ Step
            /\ database' = h.database
            /\ result' = h.result
            /\ notified' = h.notified
            /\ op' = "handle_event " \o event.eventType
            /\ writes' = <<>>
            /\ UNCHANGED <<disk, response, loop>>

Auth ==
    \E authorization \in Authorizations :
        /\ response' = auth(authorization)
        /\ op' = "auth"
        /\ result' = "None"
        /\ writes' = <<>>
        /\ notified' = <<>>
        /\ UNCHANGED <<disk, database, steps, loop>>

CventEvent ==
    \E authorization \in Authorizations :
      \E event \in IF authorization = auth_token THEN Events ELSE EventsOf("SessionCreated") :
        \E so \in Orders(disk.sessions), po \in Orders(disk.speakers) :
            \E r \in {cvent_event(disk, database, event, authorization, so, po)} :
                /\ disk' = r.disk
                /\ database' = r.database
                /\ result' = r.result
                /\ writes' = r.writes
                /\ notified' = r.notified
                /\ response' = r.response
                /\ op' = "cvent_event " \o event.eventType
                /\ UNCHANGED <<steps, loop>>

\* The Database used directly, one operation at a time.
Next ==
    \/ Load
    \/ Save
    \/ UpdateSession
    \/ UpdateSpeaker
    \/ DeleteSession
    \/ DeleteSpeaker
    \/ HandleEvent

Spec == Init /\ [][Next]_vars

\* The web application: every store is built by a request and dropped after it.
NextServer ==
    \/ Auth
    \/ CventEvent

SpecServer == Init /\ [][NextServer]_vars

(***************************************************************************)
(* The event loop of the server process: uvicorn.run starts one process    *)
(* with one loop, which runs a coroutine until it awaits or returns.       *)
(***************************************************************************)
\* The requests the connections carry.
LoopEvents ==
    {[eventType |-> "SessionUpdated", message |-> <<S1(DateTimeStr(1, 0))>>],
     [eventType |-> "SessionUpdated", message |-> <<S1(DateTimeStr(MaxInstant, 0))>>],
     [eventType |-> "SessionDeleted", message |-> <<SessionStubMessage("s1")>>],
     [eventType |-> "SessionCreated", message |-> <<Without(S1(DateTimeStr(1, 0)), {"sessionName"})>>],
     [eventType |-> "SpeakerCreated", message |-> <<P1a>>],
     [eventType |-> "SpeakerDeleted", message |-> <<SpeakerStubMessage("p1")>>],
     [eventType |-> "InviteeOrGuestAccepted", message |-> <<InviteeMessage(SelectCircle)>>],
     [eventType |-> "SessionArchived", message |-> <<SessionStubMessage("s1")>>],
     [eventType |-> "SessionUpdated", message |-> <<S1(DateTimeStr(1, 0)), S2>>]}

\* A request arrives on connection r: the server creates its coroutine.
Arrive(r) ==
    /\ tasks[r].pc = "idle"
    /\ \E event \in LoopEvents, authorization \in {auth_token, "wrong"} :
        tasks' = [tasks EXCEPT ![r] = [IdleTask EXCEPT !.pc = "arrived", !.event = event,
                                                      !.authorization = authorization]]
    /\ UNCHANGED <<disk, running, last>>

\* The loop executes coroutine r: it is the one running, or the loop is free
\* and r has not started or waits at an await.
Resumes(r) ==
    \/ running = r
    \/ running = 0 /\ tasks[r].pc \in await_points \cup {"arrived"}

\* The loop goes on with r unless r awaits before its next statement or returned.
Run(r, task) ==
    /\ tasks' = [tasks EXCEPT ![r] = task]
    /\ running' = IF task.pc \in await_points \cup {"done"} THEN 0 ELSE r

AuthStep(r) ==
    /\ Resumes(r)
    /\ tasks[r].pc = "arrived"
    /\ Run(r, cvent_event_auth(tasks[r]))
    /\ UNCHANGED <<disk, last>>

LoadStep(r) ==
    /\ Resumes(r)
    /\ tasks[r].pc = "load"
    /\ \E so \in Orders(disk.sessions), po \in Orders(disk.speakers) :
        Run(r, cvent_event_load(tasks[r], disk, so, po))
    /\ UNCHANGED <<disk, last>>

HandleStep(r) ==
    /\ Resumes(r)
    /\ tasks[r].pc = "handle"
    /\ \E task \in {cvent_event_handle(tasks[r])} : Run(r, task)
    /\ UNCHANGED <<disk, last>>

SaveStep(r) ==
    /\ Resumes(r)
    /\ tasks[r].pc = "save"
    /\ \E fault \in 0..Len(save_steps(tasks[r].database)) :
        \E o \in {cvent_event_save(tasks[r], disk, fault)} :
            /\ disk' = o.disk
            /\ Run(r, o.task)
    /\ UNCHANGED last

\* The response is sent; the connection is free for the next request.
Respond(r) ==
    /\ tasks[r].pc = "done"
    /\ tasks' = [tasks EXCEPT ![r] = IdleTask]
    /\ UNCHANGED <<disk, running, last>>

NextLoop ==
    \E r \in Requests :
        \/ Arrive(r)
        \/ AuthStep(r)
        \/ LoadStep(r)
        \/ HandleStep(r)
        \/ SaveStep(r)
        \/ Respond(r)

\* The sender keeps delivering and the loop runs every coroutine that is ready.
SpecLoop == Init /\ [][NextLoop]_vars /\ WF_vars(NextLoop)

(***************************************************************************)
(* Properties                                                              *)
(***************************************************************************)
Range(seq) == {seq[i] : i \in DOMAIN seq}

\* The wrappers of mapping m other than the one under stub.
Others_of(m, stub) == [x \in (DOMAIN m) \ {stub} |-> m[x]]

\* C1: upserting a record equal to the one the store already holds under its
\* stub returns false and leaves the whole store as it was; upserting the same
\* record twice in a row makes the second call return false and change nothing.
C1_UpsertEqualIsNoOp ==
    /\ \A d \in SessionDatas :
        /\ (/\ d.session_stub \in DOMAIN database.sessions
            /\ DataEq(SessionDataFields, database.sessions[d.session_stub].data, d))
           => update_session(database, d) = [database |-> database, result |-> "False"]
        /\ \A r1 \in {update_session(database, d)} :
               update_session(r1.database, d) = [database |-> r1.database, result |-> "False"]
    /\ \A d \in SpeakerDatas :
        /\ (/\ d.speaker_stub \in DOMAIN database.speakers
            /\ DataEq(SpeakerDataFields, database.speakers[d.speaker_stub].data, d))
           => update_speaker(database, d) = [database |-> database, result |-> "False"]
        /\ \A r1 \in {update_speaker(database, d)} :
               update_speaker(r1.database, d) = [database |-> r1.database, result |-> "False"]

\* update_session has just returned false on a store holding a loaded
\* (not updated) session.
C1_Witness ==
    /\ op = "update_session"
    /\ result = "False"
    /\ \E s \in DOMAIN database.sessions : ~database.sessions[s].updated

\* C2: upserting a session record whose stub is absent, or present with a
\* record that is not equal, returns true; afterwards the wrapper under the stub
\* holds exactly that record with updated = true, and no other wrapper changed.
C2_UpsertChangedOrNew ==
    \A d \in SessionDatas :
        (\/ d.session_stub \notin DOMAIN database.sessions
         \/ ~DataEq(SessionDataFields, database.sessions[d.session_stub].data, d))
        => \A r \in {update_session(database, d)} :
            /\ r.result = "True"
            /\ d.session_stub \in DOMAIN r.database.sessions
            /\ r.database.sessions[d.session_stub].data = d
            /\ r.database.sessions[d.session_stub].updated
            /\ Others_of(r.database.sessions, d.session_stub)
                   = Others_of(database.sessions, d.session_stub)
            /\ r.database.speakers = database.speakers

\* update_session has just replaced the record of a wrapper that existed
\* before (it carries a tombstone, which only an existing wrapper can have).
C2_Witness ==
    /\ op = "update_session"
    /\ result = "True"
    /\ \E s \in DOMAIN database.sessions :
        database.sessions[s].deleted /\ database.sessions[s].updated

\* C3: deleting a stub the collection holds returns true and sets deleted on
\* its wrapper; the key set, that wrapper's record and updated flag, and every
\* other wrapper stay as they were.
C3_SoftDelete ==
    /\ \A stub \in DOMAIN database.sessions :
        \A r \in {delete_session(database, stub)} :
            /\ r.result = "True"
            /\ DOMAIN r.database.sessions = DOMAIN database.sessions
            /\ r.database.sessions[stub].deleted
            /\ r.database.sessions[stub].updated = database.sessions[stub].updated
            /\ r.database.sessions[stub].data = database.sessions[stub].data
            /\ Others_of(r.database.sessions, stub) = Others_of(database.sessions, stub)
            /\ r.database.speakers = database.speakers
    /\ \A stub \in DOMAIN database.speakers :
        \A r \in {delete_speaker(database, stub)} :
            /\ r.result = "True"
            /\ DOMAIN r.database.speakers = DOMAIN database.speakers
            /\ r.database.speakers[stub].deleted
            /\ r.database.speakers[stub].updated = database.speakers[stub].updated
            /\ r.database.speakers[stub].data = database.speakers[stub].data
            /\ r.database.speakers[stub].categories = database.speakers[stub].categories
            /\ Others_of(r.database.speakers, stub) = Others_of(database.speakers, stub)
            /\ r.database.sessions = database.sessions

\* delete_session has just flagged a loaded session: deleted, still in the
\* mapping, updated still false.
C3_Witness ==
    /\ op = "delete_session"
    /\ result = "True"
    /\ \E s \in DOMAIN database.sessions :
        database.sessions[s].deleted /\ ~database.sessions[s].updated

\* C4: deleting a stub the collection does not hold returns false and leaves
\* the store as it was.
C4_DeleteAbsent ==
    /\ \A stub \in SessionStubs \ DOMAIN database.sessions :
        delete_session(database, stub) = [database |-> database, result |-> "False"]
    /\ \A stub \in SpeakerStubs \ DOMAIN database.speakers :
        delete_speaker(database, stub) = [database |-> database, result |-> "False"]

\* delete_speaker has just returned false on a store that holds speakers.
C4_Witness ==
    /\ op = "delete_speaker"
    /\ result = "False"
    /\ DOMAIN database.speakers # {}

\* C5: save writes one file per wrapper whose updated flag is true (deleted or
\* not), <stub>.json in the directory of its collection, holding the record;
\* every other file stays as it was and no file is removed.
C5_SaveWritesUpdatedOnly ==
    \A sv \in {save(database, disk)} :
        LET ss == {s \in DOMAIN database.sessions : database.sessions[s].updated}
            ps == {s \in DOMAIN database.speakers : database.speakers[s].updated}
        IN  /\ Range(sv.writes) = {"sessions/" \o s \o ".json" : s \in ss}
                                   \cup {"speakers/" \o s \o ".json" : s \in ps}
            /\ Len(sv.writes) = Cardinality(ss) + Cardinality(ps)
            /\ DOMAIN sv.disk.sessions = (DOMAIN disk.sessions) \cup {s \o ".json" : s \in ss}
            /\ DOMAIN sv.disk.speakers = (DOMAIN disk.speakers) \cup {s \o ".json" : s \in ps}
            /\ \A s \in ss :
                sv.disk.sessions[s \o ".json"] = json(SessionDataModel, database.sessions[s].data)
            /\ \A s \in ps :
                sv.disk.speakers[s \o ".json"] = json(SpeakerDataModel, database.speakers[s].data)
            /\ \A f \in (DOMAIN disk.sessions) \ {s \o ".json" : s \in ss} :
                sv.disk.sessions[f] = disk.sessions[f]
            /\ \A f \in (DOMAIN disk.speakers) \ {s \o ".json" : s \in ps} :
                sv.disk.speakers[f] = disk.speakers[f]

\* save has just written the file of a session that is updated and deleted.
C5_Witness ==
    /\ op = "save"
    /\ \E s \in DOMAIN database.sessions :
        /\ database.sessions[s].updated
        /\ database.sessions[s].deleted
        /\ ("sessions/" \o s \o ".json") \in Range(writes)
        /\ disk.sessions[s \o ".json"] = json(SessionDataModel, database.sessions[s].data)

\* Every file of directory d parses as a record of its collection.
FilesValidate(d) ==
    /\ \A f \in DOMAIN d.sessions : validates(SessionDataModel, d.sessions[f])
    /\ \A f \in DOMAIN d.speakers : validates(SpeakerDataModel, d.speakers[f])

\* C6: for a valid SessionCreated/SessionUpdated payload P reconciled against
\* the store loaded from the data directory, save and then load give a store
\* whose session under P's stub equals P's parsed form (lists in the same
\* order; field for field when the event changed the store); and save then
\* load reproduces every updated record of the live store field for field.
C6_RoundTrip ==
    /\ \A e \in Events :
        (/\ e.eventType \in {"SessionCreated", "SessionUpdated"}
         /\ validates(SessionDataModel, Head(e.message)))
        => \A so \in Orders(disk.sessions), po \in Orders(disk.speakers) :
             \A h \in {handle_event(e, load(disk, so, po))} :
               \A sv \in {save(h.database, disk)} :
                 /\ FilesValidate(sv.disk)
                 /\ \A so2 \in Orders(sv.disk.sessions), po2 \in Orders(sv.disk.speakers) :
                      \A db2 \in {load(sv.disk, so2, po2)} :
                        LET P == SessionData(Head(e.message))
                        IN  /\ P.session_stub \in DOMAIN db2.sessions
                            /\ DataEq(SessionDataFields, db2.sessions[P.session_stub].data, P)
                            /\ db2.sessions[P.session_stub].data.speakers = P.speakers
                            /\ db2.sessions[P.session_stub].data.speaker_category
                                   = P.speaker_category
                            /\ h.result = "True" => db2.sessions[P.session_stub].data = P
    /\ \A sv \in {save(database, disk)} :
        /\ FilesValidate(sv.disk)
        /\ \A so2 \in Orders(sv.disk.sessions), po2 \in Orders(sv.disk.speakers) :
             \A db2 \in {load(sv.disk, so2, po2)} :
               /\ \A s \in DOMAIN database.sessions :
                    database.sessions[s].updated
                    => /\ s \in DOMAIN db2.sessions
                       /\ db2.sessions[s].data = database.sessions[s].data
               /\ \A s \in DOMAIN database.speakers :
                    database.speakers[s].updated
                    => /\ s \in DOMAIN db2.speakers
                       /\ db2.speakers[s].data = database.speakers[s].data

\* A request has just reconciled a SessionUpdated payload with two speakers
\* and saved it: the file on disk parses back to the record of the store.
C6_Witness ==
    /\ op = "cvent_event SessionUpdated"
    /\ result = "True"
    /\ \E s \in DOMAIN database.sessions :
        /\ database.sessions[s].updated
        /\ Len(database.sessions[s].data.speakers) >= 2
        /\ (s \o ".json") \in DOMAIN disk.sessions
        /\ SessionData(disk.sessions[s \o ".json"]) = database.sessions[s].data

UnrecognizedError(event_type) == "ValueError: Unrecognized event type '" \o event_type \o "'"

\* C7: an event whose kind is none of the seven known ones makes handle_event
\* raise the error naming that kind with the store unchanged; the request
\* handler answers 400, does not save and writes no file.
C7_UnrecognizedEventKind ==
    \A e \in Events :
        e.eventType \notin {"SessionCreated", "SessionUpdated", "SessionDeleted",
                            "SpeakerCreated", "SpeakerUpdated", "SpeakerDeleted",
                            "InviteeOrGuestAccepted"}
        => /\ \A h \in {handle_event(e, database)} :
                /\ h.result = UnrecognizedError(e.eventType)
                /\ h.database = database
                /\ h.notified = <<>>
           /\ \A so \in Orders(disk.sessions), po \in Orders(disk.speakers) :
                \A r \in {cvent_event(disk, database, e, auth_token, so, po)} :
                    /\ r.result = UnrecognizedError(e.eventType)
                    /\ r.response = 400
                    /\ r.database = load(disk, so, po)
                    /\ r.disk = disk
                    /\ r.writes = <<>>

\* A request carrying a SessionArchived event has just been refused while the
\* data directory holds sessions.
C7_Witness ==
    /\ op = "cvent_event SessionArchived"
    /\ result = "ValueError: Unrecognized event type 'SessionArchived'"
    /\ response = 400
    /\ writes = <<>>
    /\ DOMAIN database.sessions # {}

\* C8: whenever handle_event raises, the store is exactly as it was before the
\* call, and the request handler answers 400 without saving.
C8_FailureLeavesStore ==
    \A e \in Events :
        /\ \A h \in {handle_event(e, database)} :
            h.result \notin {"True", "False"} => h.database = database
        /\ \A so \in Orders(disk.sessions), po \in Orders(disk.speakers) :
            \A db0 \in {load(disk, so, po)} :
              \A h \in {handle_event(e, db0)} :
                h.result \notin {"True", "False"}
                => /\ h.database = db0
                   /\ \A r \in {cvent_event(disk, database, e, auth_token, so, po)} :
                        /\ r.response = 400
                        /\ r.database = db0
                        /\ r.disk = disk
                        /\ r.writes = <<>>

\* A request whose SessionUpdated payload does not validate has just been
\* refused; the store it loaded holds sessions, all as loaded.
C8_Witness ==
    /\ op = "cvent_event SessionUpdated"
    /\ result = "ValidationError"
    /\ response = 400
    /\ writes = <<>>
    /\ "s2" \in DOMAIN database.sessions
    /\ \A s \in DOMAIN database.sessions :
        ~database.sessions[s].updated /\ ~database.sessions[s].deleted

\* C9: for an InviteeOrGuestAccepted event whose admission item is not the
\* special literal, handle_event returns false, leaves the store alone and
\* sends no notification.
C9_InviteeOtherItemReturnsFalse ==
    \A e \in Events :
        (/\ e.eventType = "InviteeOrGuestAccepted"
         /\ "admissionItem" \in DOMAIN Head(e.message)
         /\ Head(e.message)["admissionItem"] # Str(SelectCircle))
        => \A h \in {handle_event(e, database)} :
            /\ h.result = "False"
            /\ h.database = database
            /\ h.notified = <<>>

\* C10: handle_event on SessionCreated and on SessionUpdated gives the result
\* and the store of update_session on the parsed payload, SpeakerCreated and
\* SpeakerUpdated those of update_speaker, SessionDeleted those of
\* delete_session on the sessionStub field and SpeakerDeleted those of
\* delete_speaker on the speakerStub field.
C10_DispatchEquivalence ==
    \A e \in Events :
        \A h \in {handle_event(e, database)} :
            LET m == Head(e.message)
                out == [database |-> h.database, result |-> h.result]
            IN  /\ (/\ e.eventType \in {"SessionCreated", "SessionUpdated"}
                    /\ validates(SessionDataModel, m))
                   => out = update_session(database, SessionData(m))
                /\ (/\ e.eventType \in {"SpeakerCreated", "SpeakerUpdated"}
                    /\ validates(SpeakerDataModel, m))
                   => out = update_speaker(database, SpeakerData(m))
                /\ (e.eventType = "SessionDeleted" /\ "sessionStub" \in DOMAIN m)
                   => /\ out = delete_session(database, m["sessionStub"].s)
                      /\ m["sessionStub"].s \in DOMAIN database.sessions
                         => /\ h.result = "True"
                            /\ h.database.sessions[m["sessionStub"].s].deleted
                /\ (e.eventType = "SpeakerDeleted" /\ "speakerStub" \in DOMAIN m)
                   => out = delete_speaker(database, m["speakerStub"].s)

\* handle_event has just handled a SessionDeleted event for a stub the store
\* holds: it returned true and the wrapper is flagged deleted.
C10_Witness ==
    /\ op = "handle_event SessionDeleted"
    /\ result = "True"
    /\ \E s \in DOMAIN database.sessions : database.sessions[s].deleted

(***************************************************************************)
(* Requests on the event loop                                              *)
(***************************************************************************)
\* The requests that have loaded the data directory and have not returned.
InFlight == {r \in Requests : tasks[r].pc \in {"handle", "save"}}

\* The stub the first message of an event names ("" if none).
event_stub(event) ==
    LET m == event.message[1]
    IN  IF "sessionStub" \in DOMAIN m THEN m["sessionStub"].s
        ELSE IF "speakerStub" \in DOMAIN m THEN m["speakerStub"].s
        ELSE ""

\* C11 as stated: two concurrent requests are not serialized, the run reaches
\* an interleaving in which both requests have loaded before either has saved.
C11_LostUpdateReachable == <>(Cardinality(InFlight) = 2)

\* C11 amended: the requests of one server process are serialized.  Between
\* the load of a request and its return no other request loads or saves: it
\* is the only one in flight, the loop is running it, and the data directory
\* is still the one its load read, so its save overwrites nothing it has not
\* seen.
C11_RequestsSerialized ==
    \A r \in InFlight :
        /\ InFlight = {r}
        /\ running = r
        /\ tasks[r].seen = disk

\* Two requests changing the same stub are pending at once: one is about to
\* save, the other has arrived and waits for the loop.
C11_Witness ==
    \E r1, r2 \in Requests :
        /\ r1 # r2
        /\ tasks[r1].pc = "save"
        /\ tasks[r2].pc = "arrived"
        /\ tasks[r2].authorization = auth_token
        /\ tasks[r1].event.eventType = "SessionUpdated"
        /\ tasks[r2].event.eventType = "SessionUpdated"
        /\ event_stub(tasks[r1].event) = event_stub(tasks[r2].event)
        /\ tasks[r1].event # tasks[r2].event
        /\ disk.sessions # EmptyMap

\* C12: best-effort persistence.  When handle_event returned True and save
\* raises an I/O error, at whichever of its file-system calls, the request
\* still completes as accepted: the handler returns normally and the sender
\* gets 200, though the change may not be on disk.
C12_SaveErrorAccepted ==
    \A r \in Requests :
        /\ tasks[r].pc = "save" =>
            /\ tasks[r].result = "True"
            /\ \A fault \in 1..Len(save_steps(tasks[r].database)) :
                \A o \in {cvent_event_save(tasks[r], disk, fault)} :
                    /\ o.task.pc = "done"
                    /\ o.task.save_error
                    /\ o.task.response = HTTP_200_OK
        /\ (tasks[r].pc = "done" /\ tasks[r].save_error) =>
            /\ tasks[r].result = "True"
            /\ tasks[r].response = HTTP_200_OK

\* A session update was reconciled, its save failed before the file was
\* written, and the request was answered 200 with the record not on disk.
C12_Witness ==
    \E r \in Requests :
        /\ tasks[r].pc = "done"
        /\ tasks[r].event.eventType = "SessionUpdated"
        /\ tasks[r].result = "True"
        /\ tasks[r].save_error
        /\ tasks[r].writes = <<>>
        /\ tasks[r].response = HTTP_200_OK
        /\ filename(event_stub(tasks[r].event)) \notin DOMAIN disk.sessions

\* The calls a request has made so far are as its position in the handler
\* says, and it has saved exactly when handle_event returned True.
CallsInOrder(t) ==
    /\ t.pc \in {"idle", "arrived", "load"} => t.calls = <<>> /\ t.writes = <<>>
    /\ t.pc = "handle" => t.calls = <<"load">> /\ t.writes = <<>>
    /\ t.pc = "save" =>
        t.calls = <<"load", "handle_event">> /\ t.result = "True" /\ t.writes = <<>>
    /\ (t.pc = "done" /\ t.authorization # auth_token) =>
        t.calls = <<>> /\ t.writes = <<>>
    /\ (t.pc = "done" /\ t.authorization = auth_token) =>
        /\ t.calls \in {<<"load", "handle_event">>, <<"load", "handle_event", "save">>}
        /\ (t.calls = <<"load", "handle_event", "save">>) <=> (t.result = "True")
        /\ t.result # "True" => t.writes = <<>>

\* The data directory changes only in the step in which a request whose
\* handle_event returned True runs save.
WritesOnlyInSave ==
    disk' # disk =>
        \E r \in Requests :
            /\ tasks[r].pc = "save"
            /\ tasks[r].result = "True"
            /\ tasks'[r].pc = "done"
            /\ tasks'[r].calls = <<"load", "handle_event", "save">>

\* C13: per-request ordering.  Every request (that passed the authorization
\* check) calls load, then handle_event once on its one event, then save at
\* most once, and save is called if and only if handle_event returned True; a
\* request whose handle_event returned False or raised writes nothing to the
\* data directory.
C13_RequestOrdering ==
    /\ [](\A r \in Requests : CallsInOrder(tasks[r]))
    /\ [][WritesOnlyInSave]_vars

\* Two requests with the same session update have returned: the first
\* changed the store and saved, the second found the record held and made no
\* call to save.
C13_Witness ==
    \E r1, r2 \in Requests :
        /\ tasks[r1].pc = "done" /\ tasks[r2].pc = "done"
        /\ tasks[r1].event = tasks[r2].event
        /\ tasks[r1].event.eventType = "SessionUpdated"
        /\ tasks[r1].calls = <<"load", "handle_event", "save">>
        /\ tasks[r1].writes # <<>>
        /\ tasks[r2].calls = <<"load", "handle_event">>
        /\ tasks[r2].result = "False"
        /\ tasks[r2].response = HTTP_200_OK

\* The collection a deletion event is about ("" for any other event kind).
deleted_collection(event) ==
    IF event.eventType = "SessionDeleted" THEN "sessions"
    ELSE IF event.eventType = "SpeakerDeleted" THEN "speakers"
    ELSE ""

\* C14: a bare deletion is never persisted.  When a request handles
\* SessionDeleted (or SpeakerDeleted) for a stub held by the store it has just
\* loaded, handle_event returns True and save is called, but save writes no
\* file and removes none: the files of the data directory are the same before
\* and after (the whole directory, when both sub-directories exist), and the
\* next load yields that stub again with deleted = FALSE.
C14_BareDeleteNotPersisted ==
    \A r \in Requests :
        \A coll \in {deleted_collection(tasks[r].event)} \ {""} :
            \A stub \in {event_stub(tasks[r].event)} \cap DOMAIN tasks[r].database[coll] :
                tasks[r].pc = "handle" =>
                    \A t \in {cvent_event_handle(tasks[r])} :
                        /\ t.pc = "save"
                        /\ t.result = "True"
                        /\ t.database[coll][stub].deleted
                        /\ \A fault \in 0..Len(save_steps(t.database)) :
                            \A o \in {cvent_event_save(t, disk, fault)} :
                                /\ o.task.calls = <<"load", "handle_event", "save">>
                                /\ o.task.writes = <<>>
                                /\ o.disk.sessions = disk.sessions
                                /\ o.disk.speakers = disk.speakers
                                /\ {"sessions", "speakers"} \subseteq disk.dirs => o.disk = disk
                                /\ \A so \in Orders(o.disk.sessions), po \in Orders(o.disk.speakers) :
                                    \A db \in {load(o.disk, so, po)} :
                                        /\ stub \in DOMAIN db[coll]
                                        /\ ~db[coll][stub].deleted

\* A SessionDeleted request for a stored session has returned: it was answered
\* 200 after a save that wrote nothing, and the file is still there.
C14_Witness ==
    \E r \in Requests :
        /\ tasks[r].pc = "done"
        /\ tasks[r].event.eventType = "SessionDeleted"
        /\ tasks[r].result = "True"
        /\ tasks[r].calls = <<"load", "handle_event", "save">>
        /\ ~tasks[r].save_error
        /\ tasks[r].writes = <<>>
        /\ tasks[r].response = HTTP_200_OK
        /\ tasks[r].database.sessions[event_stub(tasks[r].event)].deleted
        /\ disk = tasks[r].seen
        /\ filename(event_stub(tasks[r].event)) \in DOMAIN disk.sessions

(***************************************************************************)
(* Load and the derived category index                                     *)
(***************************************************************************)
\* C15: immediately after load every wrapper of both collections has
\* updated = FALSE and deleted = FALSE, so a save directly after a load writes
\* no file; loading a data directory whose sessions/ and speakers/ are empty
\* or missing yields a store with no sessions and no speakers, without error.
C15_LoadIsClean ==
    /\ \A so \in Orders(disk.sessions), po \in Orders(disk.speakers) :
        \A db \in {load(disk, so, po)} :
            /\ \A s \in DOMAIN db.sessions :
                ~db.sessions[s].updated /\ ~db.sessions[s].deleted
            /\ \A p \in DOMAIN db.speakers :
                ~db.speakers[p].updated /\ ~db.speakers[p].deleted
            /\ \A sv \in {save(db, disk)} :
                /\ sv.writes = <<>>
                /\ sv.disk.sessions = disk.sessions
                /\ sv.disk.speakers = disk.speakers
    /\ \A dirs \in SUBSET {"sessions", "speakers"} :
        load([EmptyDisk EXCEPT !.dirs = dirs], <<>>, <<>>) = EmptyDatabase

\* A load has just rebuilt the store from a directory holding session files:
\* every wrapper is clean and a save now would write nothing.
C15_Witness ==
    /\ op = "load"
    /\ disk.sessions # EmptyMap
    /\ DOMAIN database.sessions # {}
    /\ \A s \in DOMAIN database.sessions :
        ~database.sessions[s].updated /\ ~database.sessions[s].deleted
    /\ save(database, disk).writes = <<>>

\* The categories one session record gives speaker s: one for each position
\* present in both lists that names s with a label of a known category.
pairs_for(data, s) ==
    LET n == Min(Len(data.speakers), Len(data.speaker_category))
        at == SelectSeq([i \in 1..n |-> i],
                        LAMBDA i : /\ data.speakers[i] = s
                                   /\ classify(data.speaker_category[i]) # "unknown")
    IN  [k \in 1..Len(at) |-> classify(data.speaker_category[at[k]])]

\* The same over the session files in the order of the scan.
RECURSIVE scan_for(_, _, _)
scan_for(files, order, s) ==
    IF order = <<>> THEN <<>>
    ELSE pairs_for(SessionData(files[Head(order)]), s) \o scan_for(files, Tail(order), s)

\* The speaker stubs session records name.
NamedSpeakers == {"p1", "p2", "p3"}

\* C16: the derived category index at load.  For every speaker stub s the
\* list speaker_categories[s] holds exactly one entry for each index-aligned
\* (speaker stub, role label) pair of each loaded session file that names s
\* with a label of a known category, in scan order and with repetitions kept;
\* a pair with an unknown label adds nothing (and no key) and the load goes on.
C16_CategoryIndexAtLoad ==
    \A so \in Orders(disk.sessions), po \in Orders(disk.speakers) :
        \A db \in {load(disk, so, po)} :
            /\ \A s \in NamedSpeakers :
                GetList(db.speaker_categories, s) = scan_for(disk.sessions, so, s)
            /\ DOMAIN db.speaker_categories =
                {s \in NamedSpeakers : scan_for(disk.sessions, so, s) # <<>>}
            /\ DOMAIN db.sessions = {SessionData(disk.sessions[f]).session_stub :
                                        f \in DOMAIN disk.sessions}

\* A load has indexed two session files: p1 is a performer three times over
\* (once in one file, twice in the other), and p2, named with the unknown
\* label "organist" and as composer, is listed as composer only.
C16_Witness ==
    /\ op = "load"
    /\ Cardinality(DOMAIN database.sessions) = 2
    /\ GetList(database.speaker_categories, "p1") = <<"PERFORMER", "PERFORMER", "PERFORMER">>
    /\ GetList(database.speaker_categories, "p2") = <<"COMPOSER">>

\* No operation on the current store, with any argument, changes the index.
IndexKept ==
    LET index == database.speaker_categories
    IN  /\ \A data \in SessionDatas :
            update_session(database, data).database.speaker_categories = index
        /\ \A data \in SpeakerDatas :
            update_speaker(database, data).database.speaker_categories = index
        /\ \A stub \in SessionStubs :
            delete_session(database, stub).database.speaker_categories = index
        /\ \A stub \in SpeakerStubs :
            delete_speaker(database, stub).database.speaker_categories = index
        /\ \A event \in Events :
            handle_event(event, database).database.speaker_categories = index

\* C17: derived index staleness.  update_session, update_speaker,
\* delete_session and delete_speaker, and so handle_event for every event
\* kind, leave speaker_categories unchanged: through any sequence of
\* operations on a store the index stays the one its last load (or its
\* construction) computed, whatever was added, changed or deleted since.
C17_IndexStale ==
    /\ []IndexKept
    /\ [][op' # "load" => database'.speaker_categories = database.speaker_categories]_vars

\* After a load that indexed p1, a session naming p1 twice more and p2 as
\* composer was added: the index still lists p1 once and has no entry for p2.
C17_Witness ==
    /\ op = "update_session"
    /\ result = "True"
    /\ "s2" \in DOMAIN database.sessions
    /\ pairs_for(database.sessions["s2"].data, "p2") = <<"COMPOSER">>
    /\ database.speaker_categories = [p \in {"p1"} |-> <<"PERFORMER">>]

\* C18: update_speaker on a stub absent from the speaker mapping creates a
\* wrapper whose categories are the index's current list for that stub, or the
\* empty list if the index has no entry; on a held stub with a different
\* record it replaces the record and sets updated, and the wrapper's
\* categories (and deleted flag) stay as they were.
C18_UpdateSpeakerCategories ==
    \A data \in SpeakerDatas :
        \A r \in {update_speaker(database, data)} :
            LET stub == data.speaker_stub
                index == database.speaker_categories
            IN  IF stub \notin DOMAIN database.speakers
                THEN /\ r.result = "True"
                     /\ stub \in DOMAIN r.database.speakers
                     /\ r.database.speakers[stub].data = data
                     /\ r.database.speakers[stub].updated
                     /\ r.database.speakers[stub].categories =
                            IF stub \in DOMAIN index THEN index[stub] ELSE <<>>
                ELSE ~DataEq(SpeakerDataFields, database.speakers[stub].data, data) =>
                     /\ r.result = "True"
                     /\ r.database.speakers[stub].data = data
                     /\ r.database.speakers[stub].updated
                     /\ r.database.speakers[stub].categories =
                            database.speakers[stub].categories
                     /\ r.database.speakers[stub].deleted = database.speakers[stub].deleted

\* update_speaker has just created the wrapper of p1 in a store whose index,
\* computed by a load, lists p1 as performer: the wrapper carries that list.
C18_Witness ==
    /\ op = "update_speaker"
    /\ result = "True"
    /\ "p1" \in DOMAIN database.speakers
    /\ database.speakers["p1"].updated
    /\ "p1" \in DOMAIN database.speaker_categories
    /\ database.speakers["p1"].categories = database.speaker_categories["p1"]
    /\ database.speakers["p1"].categories # <<>>

(***************************************************************************)
(* Notification and classifier                                             *)
(***************************************************************************)
\* Events carrying a Select Circle registration under every event kind, and
\* one carrying it as second message only.
CircleEvents ==
    {[eventType |-> ty, message |-> <<InviteeMessage(SelectCircle)>>] : ty \in EventTypes}
    \cup {[eventType |-> "InviteeOrGuestAccepted",
           message |-> <<InviteeMessage("Convention Registration"),
                         InviteeMessage(SelectCircle)>>]}

\* C19: notify_about_circle_registration is invoked, exactly once and with
\* the raw first message, if and only if the event kind is
\* InviteeOrGuestAccepted and the admission item of the first message equals
\* the Select Circle literal; for any other event kind or admission item it
\* is not invoked, and handling an InviteeOrGuestAccepted event never changes
\* the store.
C19_NotificationTrigger ==
    \A event \in Events \cup CircleEvents :
        \A h \in {handle_event(event, database)} :
            LET message == event.message[1]
                circle == /\ event.eventType = "InviteeOrGuestAccepted"
                          /\ "admissionItem" \in DOMAIN message
                          /\ message["admissionItem"].t = "str"
                          /\ message["admissionItem"].s = SelectCircle
            IN  /\ h.notified = IF circle THEN <<message>> ELSE <<>>
                /\ event.eventType = "InviteeOrGuestAccepted" => h.database = database

\* A request has just handled a Select Circle registration on a store that
\* holds a session: the one message was handed to the Notification Trigger,
\* and nothing was written.
C19_Witness ==
    /\ op = "cvent_event InviteeOrGuestAccepted"
    /\ notified = <<InviteeMessage(SelectCircle)>>
    /\ DOMAIN database.sessions # {}
    /\ writes = <<>>

\* Role labels: the eight the classifier knows, case variants of them, and others.
Labels ==
    {"Organist", "Performer", "New Music Composer", "Speaker", "Panelist", "Presenter",
     "Workshop Presenter", "Moderator",
     "organist", "PERFORMER", "new music composer", "moderator", "Workshop presenter",
     "Unknown Role", "Composer", "Organist ", ""}

\* The labels of the session files in the data directory.
LabelsOnDisk ==
    UNION {Range(SessionData(disk.sessions[f]).speaker_category) : f \in DOMAIN disk.sessions}

\* C20: the classifier is a total, case-sensitive exact-match function:
\* "Organist" and "Performer" give PERFORMER, "New Music Composer" gives
\* COMPOSER, "Speaker", "Panelist", "Presenter", "Workshop Presenter" and
\* "Moderator" give PRESENTER, and every other label, case variants of these
\* included, gives unknown (a value, not an exception).
C20_Classifier ==
    \A label \in Labels \cup LabelsOnDisk :
        classify(label) =
            CASE label = "Organist"           -> "PERFORMER"
              [] label = "Performer"          -> "PERFORMER"
              [] label = "New Music Composer" -> "COMPOSER"
              [] label = "Speaker"            -> "PRESENTER"
              [] label = "Panelist"           -> "PRESENTER"
              [] label = "Presenter"          -> "PRESENTER"
              [] label = "Workshop Presenter" -> "PRESENTER"
              [] label = "Moderator"          -> "PRESENTER"
              [] OTHER                        -> "unknown"

\* The load of a request has classified the labels of a stored session: p2
\* is named with "organist" and "New Music Composer" and is indexed as
\* composer only.
C20_Witness ==
    /\ response = HTTP_200_OK
    /\ "s2" \in DOMAIN database.sessions
    /\ database.sessions["s2"].data.speakers[1] = "p2"
    /\ database.sessions["s2"].data.speaker_category[1] = "organist"
    /\ "organist" \in LabelsOnDisk
    /\ "p2" \in DOMAIN database.speaker_categories
    /\ database.speaker_categories["p2"] = <<"COMPOSER">>

(***************************************************************************)
(* Additional message entries, files of other stubs, flags                 *)
(***************************************************************************)
\* What may follow the first entry of a message list: a valid payload for
\* another stub; a payload that does not validate, a Select Circle
\* registration, a stub to delete and a speaker payload.
ExtraEntries ==
    {<<S2>>,
     <<Without(S2, {"sessionName"}), InviteeMessage(SelectCircle),
       SessionStubMessage("s1"), P1a>>}

\* Events with additional entries, for every event kind and first entry.
MultiEvents ==
    UNION {{[eventType |-> ty, message |-> <<m>> \o extra] :
                m \in FirstMessages(ty), extra \in ExtraEntries} : ty \in EventTypes}

\* The event with all message entries after the first removed.
first_only(event) == [event EXCEPT !.message = <<Head(@)>>]

\* C21: only the first entry of an event's message list is processed.  For
\* every event the result of handle_event, the resulting store and the
\* notification are the same as for the event with the entries after the
\* first removed: additional entries cause no mutation and no failure.
\* (Every store a request can load is loaded by a request that is alone on
\* the server; the events of every kind are tried on those.)
C21_OnlyFirstMessage ==
    \A r \in Requests :
        tasks[r].pc = "handle" =>
            /\ (\A r2 \in Requests \ {r} : tasks[r2].pc = "idle") =>
                \A e \in MultiEvents :
                    handle_event(e, tasks[r].database)
                        = handle_event(first_only(e), tasks[r].database)
            /\ \A t \in {cvent_event_handle(tasks[r])} :
                \A t1 \in {cvent_event_handle([tasks[r] EXCEPT !.event = first_only(@)])} :
                    /\ t.pc = t1.pc
                    /\ t.result = t1.result
                    /\ t.database = t1.database
                    /\ t.response = t1.response

\* A request whose SessionUpdated event carried a payload for s1 followed by
\* one for s2 has returned: s1 was stored and written, s2 is in neither the
\* store nor the data directory.
C21_Witness ==
    \E r \in Requests :
        /\ tasks[r].pc = "done"
        /\ Len(tasks[r].event.message) = 2
        /\ tasks[r].event.message[2] = S2
        /\ tasks[r].result = "True"
        /\ DOMAIN tasks[r].database.sessions = {"s1"}
        /\ tasks[r].writes = <<"sessions/s1.json">>
        /\ DOMAIN disk.sessions = {"s1.json"}

\* The path under the data directory of the record an event is about: the
\* collection of its kind and <stub>.json of the stub its first message names
\* ("" for a kind that is about no record or a message that names no stub).
own_path(event) ==
    LET m == event.message[1]
    IN  IF event.eventType \in {"SessionCreated", "SessionUpdated", "SessionDeleted"}
           /\ "sessionStub" \in DOMAIN m
        THEN "sessions/" \o filename(m["sessionStub"].s)
        ELSE IF event.eventType \in {"SpeakerCreated", "SpeakerUpdated", "SpeakerDeleted"}
                /\ "speakerStub" \in DOMAIN m
        THEN "speakers/" \o filename(m["speakerStub"].s)
        ELSE ""

\* A request has written at most one path, the one of its own record; and
\* whatever a save that is about to run does, with or without an I/O error,
\* it writes nothing else and leaves every other file in place and as it is.
WritesOwnFileOnly(t, d) ==
    /\ t.writes \in {<<>>, <<own_path(t.event)>>}
    /\ t.pc = "save" =>
        \A fault \in 0..Len(save_steps(t.database)) :
            \A o \in {cvent_event_save(t, d, fault)} :
                /\ o.task.writes \in {<<>>, <<own_path(t.event)>>}
                /\ \A coll \in {"sessions", "speakers"} :
                    /\ DOMAIN d[coll] \subseteq DOMAIN o.disk[coll]
                    /\ \A f \in DOMAIN o.disk[coll] :
                        (coll \o "/" \o f) # own_path(t.event) =>
                            f \in DOMAIN d[coll] /\ o.disk[coll][f] = d[coll][f]

\* In a step no file disappears, and a file appears or changes only if it is
\* the own file of the request whose save runs in that step.
OtherFilesKept ==
    \A coll \in {"sessions", "speakers"} :
        /\ DOMAIN disk[coll] \subseteq DOMAIN disk'[coll]
        /\ \A f \in DOMAIN disk'[coll] :
            (f \notin DOMAIN disk[coll] \/ disk'[coll][f] # disk[coll][f]) =>
                \E r \in Requests :
                    /\ tasks[r].pc = "save"
                    /\ tasks'[r].pc = "done"
                    /\ own_path(tasks[r].event) = coll \o "/" \o f

\* C22: every request starts from a fresh load and reconciles one event, so
\* it writes at most one file, and that file is <stub>.json (in the
\* collection of the event kind) of the stub named in the event's own
\* payload; it never creates, rewrites or deletes the file of another stub,
\* so requests about different stubs, one after the other or pending at the
\* same time, do not overwrite each other's persisted records.
C22_OneFilePerRequest ==
    /\ [](\A r \in Requests : WritesOwnFileOnly(tasks[r], disk))
    /\ [][OtherFilesKept]_vars

\* Two requests about different stubs have returned, a session update and a
\* speaker creation: each wrote its own file only and both records are on disk.
C22_Witness ==
    \E r1, r2 \in Requests :
        /\ tasks[r1].pc = "done" /\ tasks[r2].pc = "done"
        /\ tasks[r1].event.eventType = "SessionUpdated"
        /\ tasks[r2].event.eventType = "SpeakerCreated"
        /\ tasks[r1].writes = <<"sessions/s1.json">>
        /\ tasks[r2].writes = <<"speakers/p1.json">>
        /\ SessionData(disk.sessions["s1.json"]) = tasks[r1].database.sessions["s1"].data
        /\ SpeakerData(disk.speakers["p1.json"]) = tasks[r2].database.speakers["p1"].data

\* Store b keeps every wrapper of store a, with every flag that was set
\* still set.
FlagsKept(a, b) ==
    /\ \A x \in DOMAIN a.sessions :
        /\ x \in DOMAIN b.sessions
        /\ a.sessions[x].updated => b.sessions[x].updated
        /\ a.sessions[x].deleted => b.sessions[x].deleted
    /\ \A x \in DOMAIN a.speakers :
        /\ x \in DOMAIN b.speakers
        /\ a.speakers[x].updated => b.speakers[x].updated
        /\ a.speakers[x].deleted => b.speakers[x].deleted

\* No update or delete on the current store, with any argument, clears a
\* flag; upserting for a deleted stub a record equal to the held one returns
\* False and changes nothing.
FlagsMonotone ==
    /\ \A data \in SessionDatas :
        \A r \in {update_session(database, data)} :
            /\ FlagsKept(database, r.database)
            /\ (/\ data.session_stub \in DOMAIN database.sessions
                /\ database.sessions[data.session_stub].deleted
                /\ DataEq(SessionDataFields, database.sessions[data.session_stub].data, data))
               => r.result = "False" /\ r.database = database
    /\ \A data \in SpeakerDatas :
        \A r \in {update_speaker(database, data)} :
            /\ FlagsKept(database, r.database)
            /\ (/\ data.speaker_stub \in DOMAIN database.speakers
                /\ database.speakers[data.speaker_stub].deleted
                /\ DataEq(SpeakerDataFields, database.speakers[data.speaker_stub].data, data))
               => r.result = "False" /\ r.database = database
    /\ \A stub \in SessionStubs : FlagsKept(database, delete_session(database, stub).database)
    /\ \A stub \in SpeakerStubs : FlagsKept(database, delete_speaker(database, stub).database)

\* C23: within one store instance the updated and deleted flags of a wrapper
\* are monotone: no operation (update_session, update_speaker,
\* delete_session, delete_speaker, save, and handle_event through them)
\* changes either flag from true to false.  save does not clear updated, and
\* an upsert after a delete does not clear the tombstone: upserting the
\* identical record for a deleted stub returns False and the wrapper stays
\* deleted.
C23_FlagsMonotone ==
    /\ []FlagsMonotone
    /\ [][op' # "load" => FlagsKept(database, database')]_vars

\* A session was upserted, deleted and saved, and then upserted again with
\* the same record: the call returned False, the file is on disk and the
\* wrapper is still updated and still deleted.
C23_Witness ==
    /\ op = "update_session"
    /\ result = "False"
    /\ DOMAIN database.sessions = {"s1"}
    /\ database.sessions["s1"].updated
    /\ database.sessions["s1"].deleted
    /\ DOMAIN disk.sessions = {"s1.json"}

====
